---- MODULE Spec2Model ----
(***************************************************************************)
(* Open-addressing hash table benchmark of hashperformance.c: capacity     *)
(* rounding, the multiplicative and the folding hash, the three probe      *)
(* strategies and insertion.                                               *)
(*                                                                         *)
(* Fixed-width unsigned C values (unsigned int, unsigned long long,        *)
(* size_t) are little-endian sequences of base-256 digits, so that the     *)
(* 32-bit and 64-bit wrap-around of the source is computed exactly.        *)
(* Values the source keeps small (capacities, exponents, counters, slot    *)
(* indices) are plain integers.                                            *)
(***************************************************************************)
EXTENDS Integers, Sequences, FiniteSets, TLC

\* ------------------------------------------------------------------ bounds
\* Largest min_capacity handed to hash_table_create in the table machine.
MaxMinCapacity == 4
\* Largest number of hash_table_add calls made on one table.
MaxAdds == 5
\* Largest number of hash_table_add calls made beyond the table's capacity.
MaxOverfill == 1
\* Largest min_capacity in the specification of the pure functions.
MaxFnMinCapacity == 16
\* Longest array handed to hash_table_add_all.
MaxBatch == 2

\* ------------------------------------------------------- program constants
\* sizeof(size_t) * CHAR_BIT
bits == 64
\* sizeof(int) * CHAR_BIT
IntBits == 32
INT_MAX == 2147483647
INT_MIN == -INT_MAX - 1

\* The null pointer, and the value of a record variable not yet set.
NULL == [null |-> TRUE]

\* Keys inserted into tables.
Keys == {5, 133, -1, 671088640}
\* Keys the pure functions are applied to.
FnKeys == Keys \cup {0, 1, 7, 8, 65535, 65536, -2, -133, INT_MAX, INT_MIN,
                     1073741824, 123456789, -123456789, 1431655765,
                     -1431655766}

\* ------------------------------------------------- fixed-width arithmetic
\* F applied to the value of e, which is computed once.
Once(e, F(_)) == CHOOSE y \in {F(x) : x \in {e}} : TRUE

RECURSIVE Pow2(_)
Pow2(n) == IF n = 0 THEN 1 ELSE 2 * Pow2(n - 1)

\* Conversion of a C integer to an unsigned type of w bytes (two's
\* complement: \div rounds down and % is non-negative).
RECURSIVE ToU(_, _)
ToU(x, w) == IF w = 0 THEN <<>> ELSE <<x % 256>> \o ToU(x \div 256, w - 1)

\* Digit k (1-based) of a, 0 outside the width.
At(a, k) == IF k >= 1 /\ k <= Len(a) THEN a[k] ELSE 0

\* Conversion between unsigned types: truncation or zero extension.
Resize(a, w) == Once(a, LAMBDA x : [k \in 1..w |-> At(x, k)])

IsZero(a) == \A k \in DOMAIN a : a[k] = 0

RECURSIVE AddFrom(_, _, _, _)
AddFrom(a, b, k, carry) ==
    IF k > Len(a) THEN <<>>
    ELSE Once(a[k] + b[k] + carry, LAMBDA s :
             <<s % 256>> \o AddFrom(a, b, k + 1, s \div 256))

\* a + b modulo 256^Len(a)
AddU(a, b) == Once(<<a, b>>, LAMBDA p : AddFrom(p[1], p[2], 1, 0))

RECURSIVE ColSum(_, _, _, _)
ColSum(a, b, k, j) ==
    IF j > k THEN 0 ELSE a[j] * b[k + 1 - j] + ColSum(a, b, k, j + 1)

RECURSIVE MulFrom(_, _, _, _)
MulFrom(a, b, k, carry) ==
    IF k > Len(a) THEN <<>>
    ELSE Once(ColSum(a, b, k, 1) + carry, LAMBDA s :
             <<s % 256>> \o MulFrom(a, b, k + 1, s \div 256))

\* a * b modulo 256^Len(a)
MulU(a, b) == Once(<<a, b>>, LAMBDA p : MulFrom(p[1], p[2], 1, 0))

\* a >> s, 0 <= s < 8 * Len(a)
ShrU(a, s) ==
    Once(<<a, s \div 8, Pow2(s % 8), Pow2(8 - (s % 8))>>, LAMBDA p :
        [k \in 1..Len(p[1]) |->
            (At(p[1], k + p[2]) \div p[3])
            + (At(p[1], k + p[2] + 1) % p[3]) * p[4]])

\* a << s modulo 256^Len(a), 0 <= s < 8 * Len(a)
ShlU(a, s) ==
    Once(<<a, s \div 8, Pow2(s % 8), Pow2(8 - (s % 8))>>, LAMBDA p :
        [k \in 1..Len(p[1]) |->
            ((At(p[1], k - p[2]) * p[3]) % 256)
            + (At(p[1], k - p[2] - 1) \div p[4])])

RECURSIVE AndDigit(_, _, _)
AndDigit(x, y, n) ==
    IF n = 0 THEN 0
    ELSE (x % 2) * (y % 2) + 2 * AndDigit(x \div 2, y \div 2, n - 1)

RECURSIVE OrDigit(_, _, _)
OrDigit(x, y, n) ==
    IF n = 0 THEN 0
    ELSE (IF x % 2 = 1 \/ y % 2 = 1 THEN 1 ELSE 0)
         + 2 * OrDigit(x \div 2, y \div 2, n - 1)

RECURSIVE XorDigit(_, _, _)
XorDigit(x, y, n) ==
    IF n = 0 THEN 0
    ELSE ((x + y) % 2) + 2 * XorDigit(x \div 2, y \div 2, n - 1)

AndU(a, b) ==
    Once(<<a, b>>, LAMBDA p :
        [k \in 1..Len(p[1]) |->
            IF p[1][k] = 0 \/ p[2][k] = 0 THEN 0
            ELSE AndDigit(p[1][k], p[2][k], 8)])
OrU(a, b) ==
    Once(<<a, b>>, LAMBDA p :
        [k \in 1..Len(p[1]) |-> OrDigit(p[1][k], p[2][k], 8)])

XorU(a, b) ==
    Once(<<a, b>>, LAMBDA p :
        [k \in 1..Len(p[1]) |-> XorDigit(p[1][k], p[2][k], 8)])

RECURSIVE ModFrom(_, _, _)
ModFrom(a, m, k) ==
    IF k = 0 THEN 0 ELSE ((ModFrom(a, m, k - 1) * 256) + a[Len(a) + 1 - k]) % m

\* a % m for a small modulus m (Horner's rule from the top digit)
ModU(a, m) == Once(a, LAMBDA x : ModFrom(x, m, Len(x)))

\* Bit i of a value below 2^31.
Bit(value, i) == IF i >= 31 THEN 0 ELSE (value \div Pow2(i)) % 2


\* ----------------------------------------------------------------- state
VARIABLES
    table,          \* the hash_table of hash_table_create, NULL before it
    min_capacity,   \* pure functions: the min_capacity under study
    calls,          \* the hash_table_add calls so far: argument and result
    last,           \* the latest hash_table_add call: tables and probe trace
    total,          \* value returned by hash_table_add_all, -1 before it
    key,            \* pure functions: the key they are applied to
    probe,          \* pure functions: the probe strategy under study
    ctx,            \* pure functions: the probe_context of the key
    attempt,        \* pure functions: the next attempt index i
    slots,          \* pure functions: the slots returned for 0..attempt-1
    h2,             \* pure functions: the value returned by hash2
    lookup,         \* chaining table: the latest hash_table_lookup call
    pc              \* which program runs, and the position of its driver

vars == <<table, min_capacity, calls, last, total,
          key, probe, ctx, attempt, slots, h2, lookup, pc>>

ProbeFuncs == {"probe_linear", "probe_quadratic", "probe_doublehash"}

\* `1 << (bits - 1)` shifts an int by 63: undefined behaviour.  A build
\* folds it to 0, to the int shifted by 63 mod 32 (INT_MIN, sign-extended
\* to size_t: bits 31..63) or to bit 63.  Each outcome is the set of bits
\* of the resulting size_t mask.
SignMasks == {{}, 31..63, {63}}

\* -------------------------------------------------------- capacity planner
\* Variant: the scan falls through to 1, the value the earlier gpo2stv
\* returned, instead of the exponent 0.
RECURSIVE pow2_scan_ret1(_, _)
pow2_scan_ret1(value, i) ==
    IF i > 0
    THEN IF Bit(value, i) = 1 THEN i + 1 ELSE pow2_scan_ret1(value, i - 1)
    ELSE 1

RECURSIVE pow2_scan(_, _)
pow2_scan(value, i) ==
    IF i > 0
    THEN IF Bit(value, i) = 1 THEN i + 1 ELSE pow2_scan(value, i - 1)
    ELSE 0

pow2_round_exponent(value, sign_mask) ==
    IF \E b \in sign_mask : Bit(value, b) = 1
    THEN 0
    ELSE pow2_scan(value, bits - 2)

pow2_round(value, sign_mask) == Pow2(pow2_round_exponent(value, sign_mask))

\* ------------------------------------------------------------ hash context
\* (unsigned long long)(0.5 * capacity * (sqrt5 - 1)) with sqrt5 =
\* 2.236067977: the floor of capacity * 1236067977 / 2000000000, computed
\* in two steps to stay within 32-bit integers.  The product is never
\* within 1e-9 of an integer for a power-of-two capacity, so the rounding
\* of the double does not change the floor.
mult_A_of(capacity) ==
    (capacity * 12360 + (capacity * 67977) \div 100000) \div 20000

hash_context_init(t) ==
    [t EXCEPT !.hash_ctx =
        [mult_A |-> ToU(mult_A_of(t.capacity), 8),
         capacity_pow2exp |-> t.capacity_pow2exp,
         capacity |-> t.capacity]]

\* --------------------------------------------------------------- key hasher
\* key * mult_A in unsigned long long, shifted, converted to unsigned int
hash1(hash_ctx, k) ==
    Resize(ShrU(MulU(ToU(k, 8), hash_ctx.mult_A),
                IntBits - hash_ctx.capacity_pow2exp), 4)

RECURSIVE hash2_loop(_, _, _, _, _)
hash2_loop(mask, h, shift, capacity_pow2exp, k) ==
    IF ~IsZero(mask)
    THEN Once(<<ShrU(AndU(mask, k), shift),
                ShlU(mask, capacity_pow2exp),
                shift + capacity_pow2exp>>, LAMBDA n :
             hash2_loop(n[2], n[1], n[3], capacity_pow2exp, k))
    ELSE h

\* Variant: the folded value is returned without `| 1`.
hash2_unforced(hash_ctx, k) ==
    Once(<<ToU(k, 4), hash_ctx.capacity_pow2exp>>, LAMBDA a :
        hash2_loop(ToU(hash_ctx.capacity - 1, 4), ToU(0, 4), 0, a[2], a[1]))

\* The value of h when the while loop of hash2 ends.  The key enters the
\* loop converted to unsigned int, as `mask & key` does.
hash2_h(hash_ctx, k) ==
    Once(<<ToU(k, 4), hash_ctx.capacity_pow2exp>>, LAMBDA a :
        hash2_loop(ToU(hash_ctx.capacity - 1, 4), ToU(0, 4), 0, a[2], a[1]))

hash2(hash_ctx, k) == OrU(hash2_h(hash_ctx, k), ToU(1, 4))

\* ---------------------------------------------------------- probe sequence
\* Each probe returns the slot and the probe_context it leaves behind.

\* Variant: the attempt index is not added.
probe_linear_fixed(c, i) ==
    [ctx |-> c, slot |-> ModU(Resize(c.hash1, 8), c.capacity)]

\* Variant: the attempt index is added twice.
probe_linear_step2(c, i) ==
    [ctx |-> c,
     slot |-> ModU(Resize(AddU(c.hash1, ToU(2 * i, 4)), 8), c.capacity)]

probe_linear(c, i) ==
    [ctx |-> c,
     slot |-> ModU(Resize(AddU(c.hash1, ToU(i, 4)), 8), c.capacity)]

\* Variant: the integer arithmetic of the earlier revision, ic = i / 2.
probe_quadratic_intdiv(c, i) ==
    [ctx |-> c,
     slot |-> ModU(Resize(AddU(c.hash1,
                               ToU(i \div 2 + (i \div 2) * i, 4)), 8),
                   c.capacity)]

\* The doubles of probe_quadratic are multiples of 0.5 below 2^53, hence
\* exact; they are counted in halves: ic = i halves, ic * i = i * i halves.
probe_quadratic(c, i) ==
    LET halves == AddU(ShlU(Resize(c.hash1, 8), 1), ToU(i + i * i + 2, 8))
        result == ShrU(halves, 1)
    IN  [ctx |-> c, slot |-> ModU(result, c.capacity)]

\* Variant: hash2 is used as found in the context, never computed.
probe_doublehash_nolazy(c, i) ==
    [ctx |-> c,
     slot |-> ModU(Resize(AddU(c.hash1, MulU(ToU(i, 4), c.hash2)), 8),
                   c.capacity)]

probe_doublehash(c, i) ==
    Once(IF IsZero(c.hash2)
         THEN [c EXCEPT !.hash2 = hash2(c.hash_ctx, c.key)]
         ELSE c, LAMBDA c2 :
        [ctx |-> c2,
         slot |-> ModU(Resize(AddU(c2.hash1, MulU(ToU(i, 4), c2.hash2)), 8),
                       c2.capacity)])

\* table->probe(&ctx, i)
call_probe(f, c, i) ==
    CASE f = "probe_linear" -> probe_linear(c, i)
      [] f = "probe_quadratic" -> probe_quadratic(c, i)
      [] f = "probe_doublehash" -> probe_doublehash(c, i)

\* -------------------------------------------------------------- insertion
\* The probe_context hash_table_add builds for v.
probe_context_of(t, v) ==
    [hash_ctx |-> t.hash_ctx,
     key |-> v,
     capacity |-> t.capacity,
     hash1 |-> hash1(t.hash_ctx, v),
     hash2 |-> ToU(0, 4)]

\* Variant: the loop of the earlier revision, which stores the value
\* without counting it in entries.
RECURSIVE add_loop_nocount(_, _, _, _, _, _)
add_loop_nocount(t, c, v, i, colls, probed) ==
    IF i < t.capacity
    THEN Once(call_probe(t.probe, c, i), LAMBDA r :
             LET j == r.slot
             IN  IF ~t.values[j].exists
                 THEN [table |-> [t EXCEPT
                                    !.values[j] = [exists |-> TRUE, value |-> v]],
                       colls |-> colls,
                       probed |-> Append(probed, j)]
                 ELSE add_loop_nocount(t, r.ctx, v, i + 1, colls + 1,
                                       Append(probed, j)))
    ELSE [table |-> t, colls |-> colls, probed |-> probed]

\* Variant: entries is incremented after the loop, found or not.
RECURSIVE add_loop_countfull(_, _, _, _, _, _)
add_loop_countfull(t, c, v, i, colls, probed) ==
    IF i < t.capacity
    THEN Once(call_probe(t.probe, c, i), LAMBDA r :
             LET j == r.slot
             IN  IF ~t.values[j].exists
                 THEN [table |-> [t EXCEPT
                                    !.values[j] = [exists |-> TRUE, value |-> v],
                                    !.entries = @ + 1],
                       colls |-> colls,
                       probed |-> Append(probed, j)]
                 ELSE add_loop_countfull(t, r.ctx, v, i + 1, colls + 1,
                                         Append(probed, j)))
    ELSE [table |-> [t EXCEPT !.entries = @ + 1],
          colls |-> colls, probed |-> probed]

\* Variant: when the attempts run out the value replaces the one in the
\* slot probed last.
RECURSIVE add_loop_evict(_, _, _, _, _, _)
add_loop_evict(t, c, v, i, colls, probed) ==
    IF i < t.capacity
    THEN Once(call_probe(t.probe, c, i), LAMBDA r :
             LET j == r.slot
             IN  IF ~t.values[j].exists
                 THEN [table |-> [t EXCEPT
                                    !.values[j] = [exists |-> TRUE, value |-> v],
                                    !.entries = @ + 1],
                       colls |-> colls,
                       probed |-> Append(probed, j)]
                 ELSE add_loop_evict(t, r.ctx, v, i + 1, colls + 1,
                                     Append(probed, j)))
    ELSE [table |-> IF probed = <<>> THEN t
                    ELSE [t EXCEPT !.values[probed[Len(probed)]].value = v],
          colls |-> colls, probed |-> probed]

\* The for loop of hash_table_add from attempt i on; probed is the trace
\* of the indices j examined so far.
RECURSIVE add_loop(_, _, _, _, _, _)
add_loop(t, c, v, i, colls, probed) ==
    IF i < t.capacity
    THEN Once(call_probe(t.probe, c, i), LAMBDA r :
             LET j == r.slot
             IN  IF ~t.values[j].exists
                 THEN [table |-> [t EXCEPT
                                    !.values[j] = [exists |-> TRUE, value |-> v],
                                    !.entries = @ + 1],
                       colls |-> colls,
                       probed |-> Append(probed, j)]
                 ELSE add_loop(t, r.ctx, v, i + 1, colls + 1,
                               Append(probed, j)))
    ELSE [table |-> t, colls |-> colls, probed |-> probed]

\* Variant: the earlier revision, which prints nothing when the loop
\* runs out of attempts.
hash_table_add_silent(t, v) ==
    Once(Once(probe_context_of(t, v), LAMBDA c :
             add_loop(t, c, v, 0, 0, <<>>)), LAMBDA r :
        [table |-> r.table,
         colls |-> r.colls,
         probed |-> r.probed,
         printed |-> FALSE])

\* Result of hash_table_add(table, v): the table afterwards, the value
\* returned, the indices probed and whether "Table full" was printed.
hash_table_add(t, v) ==
    Once(Once(probe_context_of(t, v), LAMBDA c :
             add_loop(t, c, v, 0, 0, <<>>)), LAMBDA r :
        [table |-> r.table,
         colls |-> r.colls,
         probed |-> r.probed,
         printed |-> (r.colls = t.capacity)])

\* Variant: the slots are allocated with malloc and slot 0 holds garbage
\* that reads as occupied.
hash_table_create_malloc(n, f, sign_mask) ==
    LET exp == pow2_round_exponent(n, sign_mask)
        cap == pow2_round(n, sign_mask)
    IN  hash_context_init(
            [capacity_pow2exp |-> exp,
             capacity |-> cap,
             entries |-> 0,
             collisions |-> 0,
             values |-> [j \in 0..(cap - 1) |->
                            [exists |-> (j = 0), value |-> 0]],
             probe |-> f,
             hash_ctx |-> NULL])

hash_table_create(n, f, sign_mask) ==
    LET exp == pow2_round_exponent(n, sign_mask)
        cap == pow2_round(n, sign_mask)
    IN  hash_context_init(
            [capacity_pow2exp |-> exp,
             capacity |-> cap,
             entries |-> 0,
             collisions |-> 0,
             values |-> [j \in 0..(cap - 1) |-> [exists |-> FALSE, value |-> 0]],
             probe |-> f,
             hash_ctx |-> NULL])

\* Result of hash_table_add_all on vals[from..]: table, sum and the
\* per-insertion return values.
RECURSIVE add_all_loop(_, _, _, _, _)
add_all_loop(t, vals, from, col, each) ==
    IF from <= Len(vals)
    THEN Once(hash_table_add(t, vals[from]), LAMBDA r :
             add_all_loop(r.table, vals, from + 1, col + r.colls,
                          Append(each, r)))
    ELSE [table |-> t, col |-> col, each |-> each]

hash_table_add_all(t, vals) == add_all_loop(t, vals, 1, 0, <<>>)

\* ----------------------------------------------------------- table machine
Init ==
    /\ table = NULL
    /\ min_capacity = -1
    /\ calls = <<>>
    /\ last = NULL
    /\ total = -1
    /\ key = 0
    /\ probe = "none"
    /\ ctx = NULL
    /\ attempt = 0
    /\ slots = <<>>
    /\ h2 = <<>>
    /\ lookup = NULL
    /\ pc = "table"

FnVars == <<min_capacity, key, probe, ctx, attempt, slots, h2, lookup, pc>>

\* What the latest hash_table_add call did.
AddRecord(t, v, r) ==
    [v |-> v, before |-> t, after |-> r.table, colls |-> r.colls,
     probed |-> r.probed, printed |-> r.printed]

\* A hash_table_add call as its caller sees it: the value passed, the
\* value returned and whether the message was printed.
CallRecord(v, r) == [v |-> v, ret |-> r.colls, printed |-> r.printed]

Create(n, f) ==
    /\ pc = "table"
    /\ table = NULL
    /\ \E sign_mask \in SignMasks : table' = hash_table_create(n, f, sign_mask)
    /\ UNCHANGED <<calls, last, total, FnVars>>

\* A table takes single insertions or one batch.
Add(v) ==
    /\ pc = "table"
    /\ table # NULL
    /\ total = -1
    /\ Len(calls) < MaxAdds
    /\ Len(calls) < table.capacity + MaxOverfill
    /\ \E r \in {hash_table_add(table, v)} :
           /\ table' = r.table
           /\ calls' = Append(calls, CallRecord(v, r))
           /\ last' = AddRecord(table, v, r)
    /\ UNCHANGED <<total, FnVars>>

Batches == UNION {[1..n -> Keys] : n \in 0..MaxBatch}

\* main calls hash_table_add_all once, on the table it has just created,
\* and frees the table after reading its counters.
AddAll(vals) ==
    /\ pc = "table"
    /\ table # NULL
    /\ calls = <<>>
    /\ total = -1
    /\ Len(vals) <= MaxAdds
    /\ Len(vals) <= table.capacity + MaxOverfill
    /\ \E r \in {hash_table_add_all(table, vals)} :
           /\ table' = r.table
           /\ calls' = [k \in 1..Len(vals) |-> CallRecord(vals[k], r.each[k])]
           /\ total' = r.col
           /\ last' = IF Len(vals) = 0 THEN last
                      ELSE AddRecord(
                             IF Len(vals) = 1 THEN table
                             ELSE r.each[Len(vals) - 1].table,
                             vals[Len(vals)], r.each[Len(vals)])
    /\ UNCHANGED FnVars

Next ==
    \/ \E n \in 0..MaxMinCapacity, f \in ProbeFuncs : Create(n, f)
    \/ \E v \in Keys : Add(v)
    \/ \E vals \in Batches : AddAll(vals)

Spec == Init /\ [][Next]_vars

\* ---------------------------------------------- the pure functions, driven
\* The inputs are drawn first; FnCreate builds the table, FnContext the
\* probe_context of the key as hash_table_add does, FnProbe asks the probe
\* strategy for the slot of attempt index 0, 1, ... and FnHash2 calls hash2.
FnInit ==
    /\ table = NULL
    /\ min_capacity \in 0..MaxFnMinCapacity
    /\ key \in FnKeys
    /\ probe \in ProbeFuncs
    /\ calls = <<>>
    /\ last = NULL
    /\ total = -1
    /\ ctx = NULL
    /\ attempt = 0
    /\ slots = <<>>
    /\ h2 = <<>>
    /\ lookup = NULL
    /\ pc = "create"

FnCreate ==
    /\ pc = "create"
    /\ \E sign_mask \in SignMasks :
           table' = hash_table_create(min_capacity, probe, sign_mask)
    /\ pc' = "context"
    /\ UNCHANGED <<min_capacity, calls, last, total, key, probe, ctx, attempt,
                   slots, h2, lookup>>

FnContext ==
    /\ pc = "context"
    /\ ctx' = probe_context_of(table, key)
    /\ pc' = "probe"
    /\ UNCHANGED <<table, min_capacity, calls, last, total, key, probe, attempt,
                   slots, h2, lookup>>

FnProbe ==
    /\ pc = "probe"
    /\ attempt < table.capacity
    /\ \E r \in {call_probe(table.probe, ctx, attempt)} :
           /\ ctx' = r.ctx
           /\ slots' = Append(slots, r.slot)
    /\ attempt' = attempt + 1
    /\ UNCHANGED <<table, min_capacity, calls, last, total, key, probe, h2,
                   lookup, pc>>

FnHash2 ==
    /\ pc = "probe"
    /\ h2 = <<>>
    /\ h2' = hash2(table.hash_ctx, key)
    /\ UNCHANGED <<table, min_capacity, calls, last, total, key, probe, ctx,
                   attempt, slots, lookup, pc>>

FnNext == FnCreate \/ FnContext \/ FnProbe \/ FnHash2

SpecFn == FnInit /\ [][FnNext]_vars

\* ------------------------------------------- the earlier revision, part_000
\* The first revision of the benchmark keeps its own hash functions, probe
\* strategies and insertion; its definitions carry the prefix rev0_ where
\* the current file defines the same name.

\* Largest number of hash_table_add calls made on one table of part_000.
MaxRev0Adds == 3

Rev0Keys == {5, 133, -1, 9, 671088640}

\* The C remainder a % b for b > 0: the sign of a.
CRem(a, b) == IF a >= 0 THEN a % b ELSE -((-a) % b)

RECURSIVE gpo2stv_scan(_, _)
gpo2stv_scan(value, i) ==
    IF i > 0
    THEN IF Bit(value, i) = 1 THEN Pow2(i + 1) ELSE gpo2stv_scan(value, i - 1)
    ELSE 1

gpo2stv(value, sign_mask) ==
    IF \E b \in sign_mask : Bit(value, b) = 1
    THEN 0
    ELSE gpo2stv_scan(value, bits - 2)

\* The unsigned int returned is stored in `const int h1`: the remainder.
rev0_hash1(k, m) == CRem(k, m)

rev0_hash2(k, m) == CRem(2 * (IF k < 0 THEN -k ELSE k) + 1, m)

\* h + i is an int, converted to size_t for the remainder.
rev0_probe_linear(h, u, i, m) == ModU(ToU(h + i, 8), m)

\* Variant: the triangular increments of the current revision.
rev0_probe_quadratic_tri(h, u, i, m) ==
    ModU(AddU(ToU(h, 8), ToU((i * (i + 1)) \div 2, 8)), m)

\* c1 and c2 are unsigned long long, so the sum is computed modulo 2^64.
rev0_probe_quadratic(h, u, i, m) ==
    ModU(AddU(AddU(ToU(h, 8), MulU(ToU(211, 8), ToU(i, 8))),
              MulU(MulU(ToU(857, 8), ToU(i, 8)), ToU(i, 8))), m)

rev0_probe_doublehash(h1, h2v, i, m) == ModU(ToU(h1 + i * h2v, 8), m)

\* table->probe(h1, h2, i, capacity)
rev0_call_probe(f, h1, h2v, i, m) ==
    CASE f = "probe_linear" -> rev0_probe_linear(h1, h2v, i, m)
      [] f = "probe_quadratic" -> rev0_probe_quadratic(h1, h2v, i, m)
      [] f = "probe_doublehash" -> rev0_probe_doublehash(h1, h2v, i, m)

\* The for loop of part_000's hash_table_add from attempt i on.
RECURSIVE rev0_add_loop(_, _, _, _, _, _, _)
rev0_add_loop(t, h1, h2v, v, i, colls, probed) ==
    IF i < t.capacity
    THEN Once(rev0_call_probe(t.probe, h1, h2v, i, t.capacity), LAMBDA j :
             IF ~t.values[j].exists
             THEN [table |-> [t EXCEPT
                                !.values[j] = [exists |-> TRUE, value |-> v]],
                   colls |-> colls,
                   probed |-> Append(probed, j)]
             ELSE rev0_add_loop(t, h1, h2v, v, i + 1, colls + 1,
                                Append(probed, j)))
    ELSE [table |-> t, colls |-> colls, probed |-> probed]

\* part_000's hash_table_add: nothing is printed, entries is not counted.
rev0_hash_table_add(t, v) ==
    Once(rev0_add_loop(t, rev0_hash1(v, t.capacity),
                       rev0_hash2(v, t.capacity), v, 0, 0, <<>>), LAMBDA r :
        [table |-> r.table,
         colls |-> r.colls,
         probed |-> r.probed,
         printed |-> FALSE])

rev0_hash_table_create(n, f, sign_mask) ==
    [capacity |-> gpo2stv(n, sign_mask),
     entries |-> 0,
     collisions |-> 0,
     values |-> [j \in 0..(gpo2stv(n, sign_mask) - 1) |->
                    [exists |-> FALSE, value |-> 0]],
     probe |-> f]

Rev0Init ==
    /\ table = NULL
    /\ min_capacity = -1
    /\ calls = <<>>
    /\ last = NULL
    /\ total = -1
    /\ key = 0
    /\ probe = "none"
    /\ ctx = NULL
    /\ attempt = 0
    /\ slots = <<>>
    /\ h2 = <<>>
    /\ lookup = NULL
    /\ pc = "rev0"

Rev0Create(n, f) ==
    /\ pc = "rev0"
    /\ table = NULL
    /\ \E sign_mask \in SignMasks :
           table' = rev0_hash_table_create(n, f, sign_mask)
    /\ UNCHANGED <<calls, last, total, FnVars>>

Rev0Add(v) ==
    /\ pc = "rev0"
    /\ table # NULL
    /\ Len(calls) < MaxRev0Adds
    /\ \E r \in {rev0_hash_table_add(table, v)} :
           /\ table' = r.table
           /\ calls' = Append(calls, CallRecord(v, r))
           /\ last' = AddRecord(table, v, r)
    /\ UNCHANGED <<total, FnVars>>

Rev0Next ==
    \/ \E n \in 0..MaxMinCapacity, f \in ProbeFuncs : Rev0Create(n, f)
    \/ \E v \in Rev0Keys : Rev0Add(v)

SpecRev0 == Rev0Init /\ [][Rev0Next]_vars

\* --------------------------------------- the chaining table, texthashtable.c
\* texthashtable.c is a program of its own; its definitions carry the prefix
\* text_ where hashperformance.c defines the same name.  A key is the
\* sequence of the key_size bytes its pointer refers to (the callers leave
\* the buffer alone while the table lives), a bucket the sequence of the
\* entries of its linked list, head first.

\* Largest number of hash_table_add calls made on one chaining table.
MaxTextAdds == 3

HASH_TABLE_CAPACITY == 127

\* Capacities handed to hash_table_create.
TextCapacities == {1, 3, HASH_TABLE_CAPACITY}

\* Keys: the empty key, keys that are prefixes of each other, and a 4-byte
\* and a 5-byte key with the same hash.
TextKeys == {<<>>, <<65>>, <<65, 66>>, <<66, 67, 68, 4>>,
             <<65, 66, 67, 68, 69>>}

\* The content of *value before hash_table_lookup is called: person_lookup
\* passes the address of an uninitialised pointer.
Unwritten == -1

lrot(value, n) == OrU(ShlU(value, n), ShrU(value, IntBits - n))

RECURSIVE text_hash_from(_, _, _)
text_hash_from(cbuf, i, result) ==
    IF i <= Len(cbuf)
    THEN text_hash_from(cbuf, i + 1, XorU(lrot(result, 8), ToU(cbuf[i], 4)))
    ELSE result

\* hash(buf, size)
text_hash(buf) == text_hash_from(buf, 1, ToU(0, 4))

\* hashed_key % table->capacity
text_index(t, k) == ModU(Resize(text_hash(k), 8), t.capacity)

text_hash_table_create(capacity) ==
    [entries |-> 0,
     collisions |-> 0,
     capacity |-> capacity,
     buckets |-> [j \in 0..(capacity - 1) |-> <<>>]]

\* The new entry is linked after the last entry of its bucket; a collision
\* is counted when the bucket's first entry is another one.
text_hash_table_add(t, k, value) ==
    Once(text_index(t, k), LAMBDA index :
        [t EXCEPT
            !.buckets[index] =
                Append(@, [key |-> k, key_size |-> Len(k), value |-> value]),
            !.entries = @ + 1,
            !.collisions = IF t.buckets[index] # <<>> THEN @ + 1 ELSE @])

\* Variant: the key sizes are not compared, only the first key_size bytes.
RECURSIVE text_lookup_loop_nosize(_, _, _, _)
text_lookup_loop_nosize(chain, n, k, old) ==
    IF n <= Len(chain)
    THEN IF /\ chain[n].key_size >= Len(k)
            /\ SubSeq(chain[n].key, 1, Len(k)) = k
         THEN [found |-> TRUE, value |-> chain[n].value]
         ELSE text_lookup_loop_nosize(chain, n + 1, k, old)
    ELSE [found |-> FALSE, value |-> old]

\* The while loop of hash_table_lookup from entry n of the chain on; old
\* is the content of *value.
RECURSIVE text_lookup_loop(_, _, _, _)
text_lookup_loop(chain, n, k, old) ==
    IF n <= Len(chain)
    THEN IF /\ chain[n].key_size = Len(k)
            /\ SubSeq(chain[n].key, 1, Len(k)) = k
         THEN [found |-> TRUE, value |-> chain[n].value]
         ELSE text_lookup_loop(chain, n + 1, k, old)
    ELSE [found |-> FALSE, value |-> old]

\* hash_table_lookup(table, key, key_size, value): the value returned and
\* the content of *value afterwards.
text_hash_table_lookup(t, k, old) ==
    text_lookup_loop(t.buckets[text_index(t, k)], 1, k, old)

TextInit ==
    /\ table = NULL
    /\ min_capacity = -1
    /\ calls = <<>>
    /\ last = NULL
    /\ total = -1
    /\ key = 0
    /\ probe = "none"
    /\ ctx = NULL
    /\ attempt = 0
    /\ slots = <<>>
    /\ h2 = <<>>
    /\ lookup = NULL
    /\ pc = "text"

TextVars == <<min_capacity, last, total, key, probe, ctx, attempt, slots, h2, pc>>

TextCreate(capacity) ==
    /\ pc = "text"
    /\ table = NULL
    /\ table' = text_hash_table_create(capacity)
    /\ UNCHANGED <<calls, lookup, TextVars>>

\* run_with_buffer fills the table before it looks names up, and gives
\* the entries the values 0, 1, 2, ... (person_id++).
TextAdd(k) ==
    /\ pc = "text"
    /\ table # NULL
    /\ lookup = NULL
    /\ Len(calls) < MaxTextAdds
    /\ table' = text_hash_table_add(table, k, Len(calls))
    /\ calls' = Append(calls, [key |-> k, value |-> Len(calls)])
    /\ UNCHANGED <<lookup, TextVars>>

TextLookup(k) ==
    /\ pc = "text"
    /\ table # NULL
    /\ \E r \in {text_hash_table_lookup(table, k, Unwritten)} :
           lookup' = [key |-> k, found |-> r.found, value |-> r.value]
    /\ UNCHANGED <<table, calls, TextVars>>

TextNext ==
    \/ \E capacity \in TextCapacities : TextCreate(capacity)
    \/ \E k \in TextKeys : TextAdd(k)
    \/ \E k \in TextKeys : TextLookup(k)

SpecText == TextInit /\ [][TextNext]_vars

\* ------------------------------------------------------------ properties
\* Index of the most significant set bit of n >= 1.
Msb(n) == CHOOSE p \in 0..30 : Pow2(p) <= n /\ n \div 2 < Pow2(p)

\* The unsigned value a is below 2^24 / its value.
IsSmall(a) == \A k \in DOMAIN a : k >= 4 => a[k] = 0
UVal(a) == a[1] + 256 * a[2] + 65536 * a[3]

\* The unsigned value a lies in [0, n), for n <= 2^24.
InRange(a, n) == IsSmall(a) /\ UVal(a) < n

RECURSIVE GCD(_, _)
GCD(a, b) == IF b = 0 THEN a ELSE GCD(b, a % b)

\* s lists every element of 0..(n - 1) exactly once.
IsPermutation(s, n) ==
    /\ Len(s) = n
    /\ {s[k] : k \in 1..Len(s)} = 0..(n - 1)

Created == table # NULL

\* C1: for every requested minimum capacity n >= 1 the capacity of the
\* created table is 2^(p+1), p the index of the most significant set bit of
\* n; it is a power of two strictly greater than n and equals 2^exponent.
C1_CapacityIsNextPow2 ==
    (Created /\ min_capacity >= 1) =>
        /\ table.capacity = Pow2(Msb(min_capacity) + 1)
        /\ table.capacity > min_capacity
        /\ table.capacity = Pow2(table.capacity_pow2exp)

\* C2 as stated: a requested minimum capacity of 0 produces no table.
C2_ZeroCapacityFails == min_capacity = 0 => ~Created

\* C2 as amended: hash_table_create(0, ...) does not fail; it returns an
\* empty table of capacity 1 = 2^0 with exponent 0.
C2_ZeroCapacityGivesOne ==
    (min_capacity = 0 /\ pc # "create") =>
        /\ Created
        /\ table.capacity = 1
        /\ table.capacity_pow2exp = 0
        /\ DOMAIN table.values = {0}
        /\ ~table.values[0].exists
        /\ table.entries = 0

C2_Witness == min_capacity = 0 /\ pc = "probe" /\ Created

\* C3: for every table capacity and every key the primary hash lies in
\* [0, capacity).
C3_Hash1InRange == ctx # NULL => InRange(ctx.hash1, table.capacity)

\* C4: for every table capacity and every key the value returned by hash2
\* is odd, hence coprime with the power-of-two capacity.
C4_Hash2Odd ==
    h2 # <<>> =>
        /\ h2[1] % 2 = 1
        /\ IsSmall(h2)
        /\ GCD(UVal(h2), table.capacity) = 1

\* hash2 was applied to a key whose last group is even, on a table with
\* more than one slot.
C4_Witness ==
    /\ h2 # <<>>
    /\ table.capacity >= 4
    /\ key \in {0, 5, 1073741824}

\* hash1 + i * hash2 exceeds 32 bits for some attempt index i < capacity.
Wraps(c) ==
    \E i \in 0..(c.capacity - 1) :
        ~IsZero(ShrU(AddU(Resize(c.hash1, 8),
                          MulU(ToU(i, 8), Resize(c.hash2, 8))), 32))

\* C5: with double hashing the slots returned for attempt indices
\* 0..capacity-1 are a permutation of [0, capacity), also when
\* hash1 + i * hash2 wraps around.
C5_DoubleHashPermutation ==
    (probe = "probe_doublehash" /\ pc = "probe" /\ attempt = table.capacity)
        => IsPermutation(slots, table.capacity)

C5_Witness ==
    /\ probe = "probe_doublehash"
    /\ pc = "probe"
    /\ attempt = table.capacity
    /\ table.capacity >= 8
    /\ Wraps(ctx)

\* C6: with the quadratic strategy the slots returned for attempt indices
\* 0..capacity-1 are a permutation of [0, capacity).
C6_QuadraticPermutation ==
    (probe = "probe_quadratic" /\ pc = "probe" /\ attempt = table.capacity)
        => IsPermutation(slots, table.capacity)

C6_Witness ==
    /\ probe = "probe_quadratic"
    /\ pc = "probe"
    /\ attempt = table.capacity
    /\ table.capacity >= 16
    /\ ~IsSmall(ctx.hash1)

\* The values passed to hash_table_add so far are pairwise distinct.
DistinctKeys ==
    \A a, b \in 1..Len(calls) : a # b => calls[a].v # calls[b].v

RECURSIVE SumRets(_, _)
SumRets(cs, k) == IF k = 0 THEN 0 ELSE cs[k].ret + SumRets(cs, k - 1)

\* The slots of v's probe sequence in table t, attempt indices i, i+1, ...
RECURSIVE ProbeSeqFrom(_, _, _)
ProbeSeqFrom(t, c, i) ==
    IF i < t.capacity
    THEN Once(call_probe(t.probe, c, i), LAMBDA r :
             <<r.slot>> \o ProbeSeqFrom(t, r.ctx, i + 1))
    ELSE <<>>

ProbeSeq(t, v) ==
    Once(probe_context_of(t, v), LAMBDA c : ProbeSeqFrom(t, c, 0))

\* C7: with linear probing or double hashing, inserting capacity distinct
\* keys into the empty table never reports a full table (no call returns
\* capacity, nothing is printed); afterwards entries = capacity and every
\* slot is occupied.
C7_FillNeverFull ==
    (/\ Created
     /\ table.probe \in {"probe_linear", "probe_doublehash"}
     /\ Len(calls) = table.capacity
     /\ DistinctKeys)
    => /\ \A k \in 1..Len(calls) :
              calls[k].ret # table.capacity /\ ~calls[k].printed
       /\ table.entries = table.capacity
       /\ \A j \in DOMAIN table.values : table.values[j].exists

C7_Witness ==
    /\ Created
    /\ table.probe = "probe_linear"
    /\ table.capacity = 4
    /\ Len(calls) = 4
    /\ DistinctKeys
    /\ \E k \in 1..Len(calls) : calls[k].ret > 0

\* C8: of capacity + 1 insertions into the empty table the last one reports
\* the full table (returns capacity, prints the message), no earlier one
\* does, and the value it returns differs from that of every earlier one.
C8_FullOnLastOnly ==
    (Created /\ Len(calls) = table.capacity + 1)
    => /\ calls[Len(calls)].ret = table.capacity
       /\ calls[Len(calls)].printed
       /\ \A k \in 1..table.capacity :
              /\ calls[k].ret < table.capacity
              /\ ~calls[k].printed
              /\ calls[k].ret # calls[Len(calls)].ret

C8_Witness ==
    /\ Created
    /\ table.capacity = 4
    /\ Len(calls) = 5
    /\ last.colls = 4
    /\ last.after = last.before

\* C9: a successful hash_table_add(table, v) stores v in the first
\* unoccupied slot of v's probe sequence, changes no other slot and no
\* other field, increments entries by 1 and returns the number of occupied
\* slots probed before that slot, which is the attempt index of the slot.
C9_AddUsesFirstFreeSlot ==
    (last # NULL /\ last.colls < last.before.capacity)
    => \A seq \in {ProbeSeq(last.before, last.v)} :
       \A free \in {{i \in 1..Len(seq) : ~last.before.values[seq[i]].exists}} :
           /\ free # {}
           /\ \A i \in {CHOOSE x \in free : \A y \in free : x <= y} :
                  /\ last.after =
                        [last.before EXCEPT
                            !.values[seq[i]] = [exists |-> TRUE, value |-> last.v],
                            !.entries = last.before.entries + 1]
                  /\ \A n \in DOMAIN last.before.values :
                        n # seq[i] => last.after.values[n] = last.before.values[n]
                  /\ last.colls = i - 1
                  /\ last.colls =
                        Cardinality({n \in 1..(i - 1) :
                                        last.before.values[seq[n]].exists})
                  /\ last.probed = SubSeq(seq, 1, i)
           /\ table = last.after

C9_Witness ==
    /\ last # NULL
    /\ last.colls >= 2
    /\ last.colls < last.before.capacity
    /\ last.after.entries = last.before.entries + 1

\* C10: the table's collisions counter equals the sum of the collision
\* counts returned by the insertions performed on the table.
C10_CollisionsCounter ==
    Created => table.collisions = SumRets(calls, Len(calls))

\* Number of occupied slots of table t.
Occupied(t) == Cardinality({j \in DOMAIN t.values : t.values[j].exists})

\* C11: in every state reached by insertions on a table, entries equals the
\* number of occupied slots and entries <= capacity, also after insertions
\* that found no free slot.
C11_EntriesCountOccupied ==
    Created => /\ table.entries = Occupied(table)
               /\ table.entries <= table.capacity

\* The table is full and the latest insertion found no free slot.
C11_Witness ==
    /\ Created
    /\ table.probe = "probe_linear"
    /\ table.capacity = 4
    /\ table.entries = 4
    /\ last.colls = 4
    /\ Occupied(table) = 4

\* C12: every slot is empty when the table is created, and a slot that is
\* occupied keeps its occupied flag and its value in every later step.
C12_SlotsKeepValue ==
    [][/\ (table = NULL /\ table' # NULL)
           => \A j \in DOMAIN table'.values : ~table'.values[j].exists
       /\ table # NULL
           => /\ table' # NULL
              /\ \A j \in DOMAIN table.values :
                     table.values[j].exists
                         => table'.values[j] = table.values[j]]_vars

\* An insertion succeeded on a table that already held two values, which
\* are still in their slots.
C12_Witness ==
    /\ last # NULL
    /\ last.before.entries = 2
    /\ last.after.entries = 3
    /\ table = last.after
    /\ \E j \in DOMAIN table.values :
           table.values[j].exists /\ table.values[j] = last.before.values[j]

\* The slot hash1 selects for v in table t: hash1 modulo the capacity.
Bucket(t, v) == ModU(Resize(hash1(t.hash_ctx, v), 8), t.capacity)

C17_ExhaustedLeavesTable ==
    (last # NULL /\ last.colls = last.before.capacity)
    => /\ last.after = last.before
       /\ \A j \in DOMAIN last.before.values :
              last.after.values[j] = last.before.values[j]
       /\ last.after.entries = last.before.entries
       /\ table = last.before
       /\ Len(last.probed) = last.before.capacity
       /\ \A k \in 1..Len(last.probed) :
              last.probed[k] \in 0..(last.before.capacity - 1)

\* A double-hashing insertion ran out of attempts on a full table of
\* capacity 4.
C17_Witness ==
    /\ last # NULL
    /\ last.before.probe = "probe_doublehash"
    /\ last.before.capacity = 4
    /\ last.colls = 4
    /\ Len(last.probed) = 4

\* C15: for every primary hash h, attempt index i and capacity C,
\* probe_quadratic returns (h + i * (i + 1) / 2) mod C; attempt index 0
\* probes slot h mod C.
C15_QuadraticTriangular ==
    (probe = "probe_quadratic" /\ pc = "probe")
    => \A k \in 1..Len(slots) :
           slots[k] = ModU(AddU(Resize(ctx.hash1, 8),
                                ToU(((k - 1) * k) \div 2, 8)),
                           table.capacity)

\* Group n of the key: bits n * exponent .. (n + 1) * exponent - 1 of the
\* key as unsigned int (the last group may be cut short by bit 31).
Group(hash_ctx, k, n) ==
    UVal(AndU(ShrU(ToU(k, 4), n * hash_ctx.capacity_pow2exp),
              ToU(hash_ctx.capacity - 1, 4)))

\* Number of groups of a 32-bit key.
Groups(hash_ctx) ==
    IF hash_ctx.capacity_pow2exp = 0 THEN 0
    ELSE (IntBits + hash_ctx.capacity_pow2exp - 1)
             \div hash_ctx.capacity_pow2exp

\* The groups 0..n-1 of the key accumulated with xor, with addition modulo
\* the capacity, and with or.
RECURSIVE FoldXor(_, _, _)
FoldXor(hash_ctx, k, n) ==
    IF n = 0 THEN 0
    ELSE XorDigit(FoldXor(hash_ctx, k, n - 1), Group(hash_ctx, k, n - 1), 8)

RECURSIVE FoldAdd(_, _, _)
FoldAdd(hash_ctx, k, n) ==
    IF n = 0 THEN 0
    ELSE (FoldAdd(hash_ctx, k, n - 1) + Group(hash_ctx, k, n - 1))
             % hash_ctx.capacity

RECURSIVE FoldOr(_, _, _)
FoldOr(hash_ctx, k, n) ==
    IF n = 0 THEN 0
    ELSE OrDigit(FoldOr(hash_ctx, k, n - 1), Group(hash_ctx, k, n - 1), 8)

\* C16: the value hash2 has folded before it is forced odd accumulates
\* every exponent-bit group of the key (by xor, by addition or by or) and
\* lies in [0, capacity); hash2 returns that value with bit 0 set.
C16_Hash2FoldsWholeKey ==
    h2 # <<>>
    => \A h \in {hash2_h(table.hash_ctx, key)} :
       \A n \in {Groups(table.hash_ctx)} :
           /\ h2 = OrU(h, ToU(1, 4))
           /\ InRange(h, table.capacity)
           /\ UVal(h) \in {FoldXor(table.hash_ctx, key, n),
                             FoldAdd(table.hash_ctx, key, n),
                             FoldOr(table.hash_ctx, key, n)}

\* The slots the prime-multiplier quadratic probe of part_000 returns for
\* value v in table t over the attempt indices 0..capacity-1.
Rev0QuadraticSlots(t, v) ==
    {rev0_probe_quadratic(rev0_hash1(v, t.capacity), rev0_hash2(v, t.capacity),
                          i, t.capacity) : i \in 0..(t.capacity - 1)}

\* C18: with the prime-multiplier quadratic probe of part_000 and a
\* power-of-two capacity C >= 2 the probes of attempt indices 0..C-1 leave
\* some slot unvisited, and an insertion that has used up its C attempts
\* has stored nothing.
C18_PrimeQuadraticNotFullCycle ==
    (last # NULL /\ last.before.probe = "probe_quadratic"
                 /\ last.before.capacity >= 2)
    => /\ Rev0QuadraticSlots(last.before, last.v)
              # 0..(last.before.capacity - 1)
       /\ {last.probed[k] : k \in 1..Len(last.probed)}
              \subseteq Rev0QuadraticSlots(last.before, last.v)
       /\ last.colls = last.before.capacity => last.after = last.before

\* hash_table_add used up all its attempts and dropped the value although
\* the table has free slots.
C18_Witness ==
    /\ last # NULL
    /\ last.before.probe = "probe_quadratic"
    /\ last.before.capacity >= 2
    /\ last.colls = last.before.capacity
    /\ last.after = last.before
    /\ \E j \in DOMAIN table.values : ~table.values[j].exists

\* The hash_table_add calls that added the key k, in order.
AddedWith(k) == {n \in 1..Len(calls) : calls[n].key = k}

\* C14: hash_table_lookup returns true and writes the value of the earliest
\* added entry with the same key size and bytes when such an entry was
\* added; otherwise it returns false and leaves *value unwritten, whatever
\* other keys are in the bucket.
C14_LookupFindsEarliest ==
    (pc = "text" /\ lookup # NULL)
    => \A m \in {AddedWith(lookup.key)} :
           IF m # {}
           THEN /\ lookup.found
                /\ lookup.value =
                       calls[CHOOSE n \in m : \A o \in m : n <= o].value
           ELSE /\ ~lookup.found
                /\ lookup.value = Unwritten

\* A key added twice is looked up behind an entry whose key has another
\* size and the same hash; the value of the earlier of the two is written.
C14_Witness ==
    /\ pc = "text"
    /\ table # NULL
    /\ table.capacity = 3
    /\ Len(calls) = 3
    /\ calls[1].key = <<66, 67, 68, 4>>
    /\ calls[2].key = <<65, 66, 67, 68, 69>>
    /\ calls[3].key = <<65, 66, 67, 68, 69>>
    /\ lookup # NULL
    /\ lookup.key = <<65, 66, 67, 68, 69>>
    /\ lookup.found
    /\ lookup.value = 1
    /\ table.collisions = 2

====
